---- MODULE Spec2Model ----
(***************************************************************************)
(* The recipe API of app/recipe/views.py as a state machine.  The state is *)
(* the three tables (tags, ingredients, recipes) with their id sequences,  *)
(* the users of core/models.py with their tokens, and the last request     *)
(* handled with its credentials and its response.  Every action is one     *)
(* request handled to completion by a view.                                *)
(*                                                                         *)
(* Strings that the code parses (query parameters) are sequences of        *)
(* one-character strings, so that split(",") and int() are computed.       *)
(***************************************************************************)
EXTENDS Integers, Sequences, FiniteSets, TLC

\* ------------------------------------------------------------- bounds
\* Rows a table is given at most (ids are never used again, so these bound
\* the id sequences too).  MaxRecipes bounds the recipes of Spec and
\* MaxListRecipes those of ListSpec.
MaxTags == 2
MaxIngredients == 1
MaxRecipes == 1
MaxListRecipes == 2
\* MaxUsers bounds the rows of the users' table (UserSpec).
MaxUsers == 3
\* MaxAuthTags bounds the tags of AuthSpec, which has MaxIngredients
\* ingredients and MaxRecipes recipes.
MaxAuthTags == 1

\* ------------------------------------------------------------- inputs
Users == {1, 2}

\* Response statuses.  The last is an exception that no handler catches
\* (the framework answers 500 and the test client re-raises it).
HTTP_200_OK == "200 OK"
HTTP_201_CREATED == "201 Created"
HTTP_204_NO_CONTENT == "204 No Content"
HTTP_400_BAD_REQUEST == "400 Bad Request"
HTTP_404_NOT_FOUND == "404 Not Found"
HTTP_401_UNAUTHORIZED == "401 Unauthorized"
HTTP_405_METHOD_NOT_ALLOWED == "405 Method Not Allowed"
UNHANDLED_EXCEPTION == "500 unhandled exception"

\* The stored image of a recipe without one.
NoImage == ""
\* What an upload may carry: two JPEG files and a string that is no image.
ValidImages == {"a.jpg", "b.jpg"}
Uploads == ValidImages \cup {"no_image"}

\* Rank of a name in string order, for order_by("-name").
NameRank(n) == CASE n = "" -> 0 [] n = "Drunken" -> 1 [] n = "Vegan" -> 2

\* ------------------------------------------------------------- strings
Digits == {"0", "1", "2", "3", "4", "5", "6", "7", "8", "9"}

DigitVal(c) ==
    CASE c = "0" -> 0 [] c = "1" -> 1 [] c = "2" -> 2 [] c = "3" -> 3
      [] c = "4" -> 4 [] c = "5" -> 5 [] c = "6" -> 6 [] c = "7" -> 7
      [] c = "8" -> 8 [] c = "9" -> 9

\* str.split(","): the pieces between the commas, empty pieces kept.
RECURSIVE split(_)
split(s) ==
    IF \A i \in 1..Len(s) : s[i] # ","
    THEN <<s>>
    ELSE LET k == CHOOSE i \in 1..Len(s) :
                      s[i] = "," /\ \A j \in 1..(i - 1) : s[j] # ","
         IN <<SubSeq(s, 1, k - 1)>> \o split(SubSeq(s, k + 1, Len(s)))

\* int(str) succeeds on a non-empty run of digits (over the alphabet of the
\* inputs below: no sign, blank or underscore) and raises ValueError otherwise.
int_ok(s) == Len(s) > 0 /\ \A i \in 1..Len(s) : s[i] \in Digits

RECURSIVE int(_)
int(s) == IF Len(s) = 0 THEN 0
          ELSE 10 * int(SubSeq(s, 1, Len(s) - 1)) + DigitVal(s[Len(s)])

\* ------------------------------------------------------------- state
VARIABLES
    tags,          \* rows of core_tag: [id, name, user]
    ingredients,   \* rows of core_ingredient: [id, name, user]
    recipes,       \* rows of core_recipe with its two many-to-many sets
    next_id,       \* the id sequence of each table
    creator,       \* history: the caller of the create request of each row
    last,          \* the last request and its response
    users,         \* rows of core_myuser
    tokens,        \* rows of authtoken_token: [key, user]
    raw_password,  \* history: the password last set for each user, as given
    authorization  \* the credentials of the last request

vars == <<tags, ingredients, recipes, next_id, creator, last,
          users, tokens, raw_password, authorization>>

\* The tables of the accounts, which no request of app/recipe writes.
accounts == <<users, tokens, raw_password>>

NoQuery == [p \in {} |-> <<>>]
NoRows == [i \in {} |-> 0]
NoData == [f \in {} |-> 0]

Response(action, user, pk, query, data, status, rows, nt, ni) ==
    [action |-> action, user |-> user, pk |-> pk, query |-> query,
     data |-> data, status |-> status, rows |-> rows,
     nested_tags |-> nt, nested_ingredients |-> ni]

\* ------------------------------------------------- users (core/models.py)
\* An email address is the pair of its name and its domain part; NoEmail is
\* the empty string (`not email` holds of it).
NoEmail == <<>>

\* str.lower() on the domain parts of the inputs.
lower(s) == CASE s = "TEST.com" -> "test.com" [] OTHER -> s

\* BaseUserManager.normalize_email: the domain part in lower case.
normalize_email(email) ==
    IF email = NoEmail THEN NoEmail ELSE <<email[1], lower(email[2])>>

\* AbstractBaseUser.set_password stores make_password(raw): a salted hash,
\* which is not the password and which check_password matches against it.
make_password(raw) == [algorithm |-> "pbkdf2_sha256", hash_of |-> raw]

check_password(raw, encoded) == encoded = make_password(raw)

\* MyUserManager.create_user raises ValueError.
create_user_raises(email) == email = NoEmail

\* Mutant of MyUserManager.create_user: the password is stored as given,
\* without set_password (a value with no algorithm, which check_password
\* does not match).
create_user_plain_password(id, email, password, extra_fields) ==
    [id |-> id, email |-> normalize_email(email),
     password |-> [algorithm |-> "", hash_of |-> password],
     name |-> IF "name" \in DOMAIN extra_fields THEN extra_fields.name ELSE "",
     is_active |-> TRUE, is_staff |-> FALSE]

\* MyUserManager.create_user: the row that user.save() writes, with the
\* defaults of the fields of MyUser.
create_user(id, email, password, extra_fields) ==
    [id |-> id, email |-> normalize_email(email),
     password |-> make_password(password),
     name |-> IF "name" \in DOMAIN extra_fields THEN extra_fields.name ELSE "",
     is_active |-> TRUE, is_staff |-> FALSE]

\* Mutant of the unique constraint: no constraint.
MyUser_email_not_unique(rows, email) == FALSE

\* email = models.EmailField(unique=True): the insert of a row with this
\* email raises IntegrityError.
MyUser_email_unique_violated(rows, email) == \E u \in rows : u.email = email

\* The users of the tests' setUp, and their passwords.
TestUser == <<"test", "test.com">>
AnotherUser == <<"test2", "test.com">>
TestPassword == "testpass1234"
AnotherPassword == "test2pass1234"

\* The credentials of a request: the user of the test client's
\* force_authenticate (0: none) and the key of its Authorization header
\* ("": no header).
Credentials(force, key) == [force |-> force, key |-> key]

\* ------------------------------------------------- initial state
\* The tables are empty but for the two users of the tests' setUp.
Init ==
    /\ tags = {}
    /\ ingredients = {}
    /\ recipes = {}
    /\ users = {create_user(1, TestUser, TestPassword, NoData),
                create_user(2, AnotherUser, AnotherPassword, NoData)}
    /\ tokens = {}
    /\ raw_password = (1 :> TestPassword) @@ (2 :> AnotherPassword)
    /\ next_id = [tag |-> 1, ingredient |-> 1, recipe |-> 1, user |-> 3]
    /\ creator = [tag |-> NoRows, ingredient |-> NoRows, recipe |-> NoRows]
    /\ last = Response("none", 0, 0, NoQuery, NoData, "none", <<>>, {}, {})
    /\ authorization = Credentials(0, "")

\* ------------------------------------------------- querysets and lists
\* The ids of a set of rows.
Ids(rows) == {r.id : r \in rows}

\* The row of a table with a given id (ids are unique in a table).
Row(table, id) == CHOOSE r \in table : r.id = id

\* The sequences that list a bag of ids (id -> number of rows) in the order
\* of order_by("-name"); rows of equal name come in any order.
OrderedByNameDesc(table, bag) ==
    LET ids == DOMAIN bag
        n == IF ids = {} THEN 0
             ELSE LET RECURSIVE Sum(_)
                      Sum(S) == IF S = {} THEN 0
                                ELSE LET x == CHOOSE y \in S : TRUE
                                     IN bag[x] + Sum(S \ {x})
                  IN Sum(ids)
    IN {s \in [1..n -> ids] :
          /\ \A i \in ids : Cardinality({k \in 1..n : s[k] = i}) = bag[i]
          /\ \A k \in 1..(n - 1) :
                NameRank(Row(table, s[k]).name) >= NameRank(Row(table, s[k + 1]).name)}

\* queryset.distinct(): every row once.
distinct(bag) == [i \in DOMAIN bag |-> 1]

\* int(self.request.query_params.get("assigned_only", 0)) raises ValueError.
assigned_only_raises(query) ==
    "assigned_only" \in DOMAIN query /\ ~int_ok(query.assigned_only)

\* bool(int(self.request.query_params.get("assigned_only", 0)))
assigned_only(query) ==
    IF "assigned_only" \in DOMAIN query THEN int(query.assigned_only) # 0 ELSE FALSE

\* BaseRecipeAttrViewset.get_queryset: the bag of rows of `table` (core_tag or
\* core_ingredient; `field` is the recipe's many-to-many field onto it).
\* filter(recipe__isnull=False) joins the table with the many-to-many rows:
\* one row per recipe, of any owner, that references the tag or ingredient.
BaseRecipeAttrViewset_get_queryset(table, field, user, query) ==
    LET joined == [i \in Ids(table) |->
                     IF assigned_only(query)
                     THEN Cardinality({r \in recipes : i \in r[field]})
                     ELSE 1]
        kept == {i \in Ids(table) : joined[i] > 0 /\ Row(table, i).user = user}
    IN distinct([i \in kept |-> joined[i]])

\* ListModelMixin.list over BaseRecipeAttrViewset.get_queryset.
BaseRecipeAttrViewset_list(action, table, field, user, query) ==
    /\ IF assigned_only_raises(query)
       THEN last' = Response(action, user, 0, query, NoData,
                             UNHANDLED_EXCEPTION, <<>>, {}, {})
       ELSE \E rows \in OrderedByNameDesc(table,
                   BaseRecipeAttrViewset_get_queryset(table, field, user, query)) :
              last' = Response(action, user, 0, query, NoData,
                               HTTP_200_OK, rows, {}, {})
    /\ UNCHANGED <<accounts, tags, ingredients, recipes, next_id, creator>>

TagList(user, query) ==
    BaseRecipeAttrViewset_list("tag-list", tags, "tags", user, query)

IngredientList(user, query) ==
    BaseRecipeAttrViewset_list("ingredient-list", ingredients, "ingredients", user, query)

\* ------------------------------------------------- tag and ingredient create
\* TagSerializer / IngredientSerializer validation: name is required and
\* may not be blank.
AttrSerializer_is_valid(data) == "name" \in DOMAIN data /\ data.name # ""

\* serializer.save(**kwargs) on create: the validated fields (name only; the
\* payload's other keys are no serializer fields) and then the kwargs.
AttrSerializer_save(data, id, kwargs) ==
    [id |-> id, name |-> data.name, user |-> kwargs.user]

\* Mutant of BaseRecipeAttrViewset.perform_create: serializer.save() without
\* the user, so that the owner is the one the payload names when it names one.
BaseRecipeAttrViewset_perform_create_payload_owner(data, id, user) ==
    AttrSerializer_save(data, id,
        [user |-> IF "user" \in DOMAIN data THEN data.user ELSE user])

\* BaseRecipeAttrViewset.perform_create: serializer.save(user=self.request.user)
BaseRecipeAttrViewset_perform_create(data, id, user) ==
    AttrSerializer_save(data, id, [user |-> user])

\* Mutant of the tag create: the row is saved without is_valid().
TagCreate_unvalidated(user, data) ==
    /\ tags' = tags \cup
           {BaseRecipeAttrViewset_perform_create(data, next_id.tag, user)}
    /\ next_id' = [next_id EXCEPT !.tag = @ + 1]
    /\ creator' = [creator EXCEPT !.tag = (next_id.tag :> user) @@ @]
    /\ last' = Response("tag-create", user, next_id.tag, NoQuery, data,
                        HTTP_201_CREATED, <<next_id.tag>>, {}, {})
    /\ UNCHANGED <<accounts, ingredients, recipes>>

\* CreateModelMixin.create of TagViewSet.
TagCreate(user, data) ==
    IF AttrSerializer_is_valid(data)
    THEN /\ tags' = tags \cup
                {BaseRecipeAttrViewset_perform_create(data, next_id.tag, user)}
         /\ next_id' = [next_id EXCEPT !.tag = @ + 1]
         /\ creator' = [creator EXCEPT !.tag = (next_id.tag :> user) @@ @]
         /\ last' = Response("tag-create", user, next_id.tag, NoQuery, data,
                             HTTP_201_CREATED, <<next_id.tag>>, {}, {})
         /\ UNCHANGED <<accounts, ingredients, recipes>>
    ELSE /\ last' = Response("tag-create", user, 0, NoQuery, data,
                             HTTP_400_BAD_REQUEST, <<>>, {}, {})
         /\ UNCHANGED <<accounts, tags, ingredients, recipes, next_id, creator>>

\* CreateModelMixin.create of IngredientViewSet.
IngredientCreate(user, data) ==
    IF AttrSerializer_is_valid(data)
    THEN /\ ingredients' = ingredients \cup
                {BaseRecipeAttrViewset_perform_create(data, next_id.ingredient, user)}
         /\ next_id' = [next_id EXCEPT !.ingredient = @ + 1]
         /\ creator' = [creator EXCEPT
                          !.ingredient = (next_id.ingredient :> user) @@ @]
         /\ last' = Response("ingredient-create", user, next_id.ingredient, NoQuery,
                             data, HTTP_201_CREATED, <<next_id.ingredient>>, {}, {})
         /\ UNCHANGED <<accounts, tags, recipes>>
    ELSE /\ last' = Response("ingredient-create", user, 0, NoQuery, data,
                             HTTP_400_BAD_REQUEST, <<>>, {}, {})
         /\ UNCHANGED <<accounts, tags, ingredients, recipes, next_id, creator>>

\* ------------------------------------------------- recipe queryset
\* RecipeViewSet._params_to_ints raises ValueError: some piece between the
\* commas is no integer.
params_to_ints_raises(query_string) ==
    LET pieces == split(query_string)
    IN \E k \in 1..Len(pieces) : ~int_ok(pieces[k])

\* RecipeViewSet._params_to_ints: [int(str_id) for str_id in query_string.split(",")]
params_to_ints(query_string) ==
    LET pieces == split(query_string)
    IN [k \in 1..Len(pieces) |-> int(pieces[k])]

\* request.query_params.get(name): the value, or None; `if tags:` holds of a
\* value that is there and not the empty string.
param_given(query, name) == name \in DOMAIN query /\ query[name] # <<>>

\* RecipeViewSet.get_queryset raises (the ValueError of _params_to_ints).
RecipeViewSet_get_queryset_raises(query) ==
    \/ param_given(query, "tags") /\ params_to_ints_raises(query["tags"])
    \/ param_given(query, "ingredients") /\ params_to_ints_raises(query["ingredients"])

\* The rows a filter(<field>__id__in=ids) keeps of one recipe: the join with
\* the many-to-many table gives one row per referenced id that is in ids.
join_rows(recipe, field, query) ==
    IF param_given(query, field)
    THEN LET ints == params_to_ints(query[field])
         IN Cardinality(recipe[field] \cap {ints[k] : k \in 1..Len(ints)})
    ELSE 1

\* Mutant of RecipeViewSet.get_queryset: the filter on the owner is missing.
RecipeViewSet_get_queryset_any_user(user, query) ==
    LET n == [i \in Ids(recipes) |->
                join_rows(Row(recipes, i), "tags", query)
                  * join_rows(Row(recipes, i), "ingredients", query)]
    IN [i \in {j \in Ids(recipes) : n[j] > 0} |-> n[i]]

\* Mutant of RecipeViewSet.get_queryset: the ingredients filter is missing.
RecipeViewSet_get_queryset_tags_only(user, query) ==
    LET owned == {r \in recipes : r.user = user}
        n == [i \in Ids(owned) |-> join_rows(Row(recipes, i), "tags", query)]
    IN [i \in {j \in Ids(owned) : n[j] > 0} |-> n[i]]

\* RecipeViewSet.get_queryset, before order_by: the bag of rows (recipe id ->
\* number of rows) of the caller's recipes after the two filters.
RecipeViewSet_get_queryset(user, query) ==
    LET owned == {r \in recipes : r.user = user}
        n == [i \in Ids(owned) |->
                join_rows(Row(recipes, i), "tags", query)
                  * join_rows(Row(recipes, i), "ingredients", query)]
    IN [i \in {j \in Ids(owned) : n[j] > 0} |-> n[i]]

\* order_by("-id"): the rows of a bag by descending id.
RECURSIVE order_by_id_desc(_)
order_by_id_desc(bag) ==
    IF DOMAIN bag = {} THEN <<>>
    ELSE LET m == CHOOSE i \in DOMAIN bag : \A j \in DOMAIN bag : j <= i
         IN [k \in 1..bag[m] |-> m]
              \o order_by_id_desc([i \in DOMAIN bag \ {m} |-> bag[i]])

\* ListModelMixin.list of RecipeViewSet.
RecipeList(user, query) ==
    /\ IF RecipeViewSet_get_queryset_raises(query)
       THEN last' = Response("recipe-list", user, 0, query, NoData,
                             UNHANDLED_EXCEPTION, <<>>, {}, {})
       ELSE last' = Response("recipe-list", user, 0, query, NoData, HTTP_200_OK,
                             order_by_id_desc(RecipeViewSet_get_queryset(user, query)),
                             {}, {})
    /\ UNCHANGED <<accounts, tags, ingredients, recipes, next_id, creator>>

\* GenericAPIView.get_object over RecipeViewSet.get_queryset: the outcome of
\* get_object_or_404(queryset, pk=pk).  One row: the object; no row: Http404;
\* several rows: MultipleObjectsReturned, which nothing catches.
RecipeViewSet_get_object(user, pk, query) ==
    IF RecipeViewSet_get_queryset_raises(query) THEN UNHANDLED_EXCEPTION
    ELSE LET qs == RecipeViewSet_get_queryset(user, query)
         IN IF pk \notin DOMAIN qs THEN HTTP_404_NOT_FOUND
            ELSE IF qs[pk] > 1 THEN UNHANDLED_EXCEPTION
            ELSE HTTP_200_OK

\* ------------------------------------------------- recipe serializers
\* RecipeSerializer validation.  title, time_minutes and price are required
\* (of a partial update only when given), the title may not be blank, and
\* tags and ingredients are lists of ids of existing rows, of any owner.
RecipeSerializer_is_valid(data, partial) ==
    /\ IF "title" \in DOMAIN data THEN data.title # "" ELSE partial
    /\ "time_minutes" \in DOMAIN data \/ partial
    /\ "price" \in DOMAIN data \/ partial
    /\ "tags" \in DOMAIN data => data.tags \subseteq Ids(tags)
    /\ "ingredients" \in DOMAIN data => data.ingredients \subseteq Ids(ingredients)

\* The value a save gives a field: the payload's when the payload has it;
\* otherwise the instance's own under a partial update, and `dflt` (the empty
\* list of a many-to-many field) under a create or a full update.
saved_field(data, field, partial, old, dflt) ==
    IF field \in DOMAIN data THEN data[field]
    ELSE IF partial THEN old ELSE dflt

\* RecipeSerializer.save(**kwargs) of a create.
RecipeSerializer_create(data, id, kwargs) ==
    [id |-> id, title |-> data.title, time_minutes |-> data.time_minutes,
     price |-> data.price, image |-> NoImage, user |-> kwargs.user,
     tags |-> saved_field(data, "tags", FALSE, {}, {}),
     ingredients |-> saved_field(data, "ingredients", FALSE, {}, {})]

\* RecipeSerializer.save() of an update: id, image and user are no writable
\* fields of the serializer.
RecipeSerializer_update(instance, data, partial) ==
    [id |-> instance.id,
     title |-> saved_field(data, "title", partial, instance.title, instance.title),
     time_minutes |-> saved_field(data, "time_minutes", partial,
                                  instance.time_minutes, instance.time_minutes),
     price |-> saved_field(data, "price", partial, instance.price, instance.price),
     image |-> instance.image, user |-> instance.user,
     tags |-> saved_field(data, "tags", partial, instance.tags, {}),
     ingredients |-> saved_field(data, "ingredients", partial,
                                 instance.ingredients, {})]

\* RecipeImageSerializer validation: the upload is an image file.
RecipeImageSerializer_is_valid(data) ==
    "image" \in DOMAIN data /\ data.image \in ValidImages

\* RecipeImageSerializer.save(): the image, and nothing else, is written.
RecipeImageSerializer_update(instance, data) ==
    [instance EXCEPT !.image = data.image]

\* ------------------------------------------------- recipe requests
\* Mutant of RecipeViewSet.perform_create: of the tags the payload lists,
\* only those the caller owns are associated with the new recipe.
RecipeViewSet_perform_create_own_tags(data, id, user) ==
    [RecipeSerializer_create(data, id, [user |-> user]) EXCEPT
        !.tags = {t \in @ : Row(tags, t).user = user}]

\* RecipeViewSet.perform_create: serializer.save(user=self.request.user)
RecipeViewSet_perform_create(data, id, user) ==
    RecipeSerializer_create(data, id, [user |-> user])

\* CreateModelMixin.create of RecipeViewSet.
RecipeCreate(user, data) ==
    IF RecipeSerializer_is_valid(data, FALSE)
    THEN /\ recipes' = recipes \cup
                {RecipeViewSet_perform_create(data, next_id.recipe, user)}
         /\ next_id' = [next_id EXCEPT !.recipe = @ + 1]
         /\ creator' = [creator EXCEPT !.recipe = (next_id.recipe :> user) @@ @]
         /\ last' = Response("recipe-create", user, next_id.recipe, NoQuery, data,
                             HTTP_201_CREATED, <<next_id.recipe>>, {}, {})
         /\ UNCHANGED <<accounts, tags, ingredients>>
    ELSE /\ last' = Response("recipe-create", user, 0, NoQuery, data,
                             HTTP_400_BAD_REQUEST, <<>>, {}, {})
         /\ UNCHANGED <<accounts, tags, ingredients, recipes, next_id, creator>>

\* A request that ends without the object or without a valid payload.
Refused(action, user, pk, query, data, status) ==
    /\ last' = Response(action, user, pk, query, data, status, <<>>, {}, {})
    /\ UNCHANGED <<accounts, tags, ingredients, recipes, next_id, creator>>

\* RetrieveModelMixin.retrieve with RecipeDetailSerializer: the recipe with
\* the details of its tags and of its ingredients nested.
RecipeRetrieve(user, pk, query) ==
    LET found == RecipeViewSet_get_object(user, pk, query)
    IN IF found # HTTP_200_OK
       THEN Refused("recipe-retrieve", user, pk, query, NoData, found)
       ELSE /\ last' = Response("recipe-retrieve", user, pk, query, NoData,
                                HTTP_200_OK, <<pk>>, Row(recipes, pk).tags,
                                Row(recipes, pk).ingredients)
            /\ UNCHANGED <<accounts, tags, ingredients, recipes, next_id, creator>>

\* UpdateModelMixin.update: get_object, validation, serializer.save().
UpdateModelMixin_update(action, user, pk, query, data, partial) ==
    LET found == RecipeViewSet_get_object(user, pk, query)
    IN IF found # HTTP_200_OK
       THEN Refused(action, user, pk, query, data, found)
       ELSE IF ~RecipeSerializer_is_valid(data, partial)
       THEN Refused(action, user, pk, query, data, HTTP_400_BAD_REQUEST)
       ELSE /\ recipes' = (recipes \ {Row(recipes, pk)}) \cup
                     {RecipeSerializer_update(Row(recipes, pk), data, partial)}
            /\ last' = Response(action, user, pk, query, data, HTTP_200_OK,
                                <<pk>>, {}, {})
            /\ UNCHANGED <<accounts, tags, ingredients, next_id, creator>>

\* Mutant of the PUT: it is handled as a partial update.
RecipeUpdate_partial(user, pk, query, data) ==
    UpdateModelMixin_update("recipe-update", user, pk, query, data, TRUE)

\* PUT recipes/{pk}: ModelViewSet.update.
RecipeUpdate(user, pk, query, data) ==
    UpdateModelMixin_update("recipe-update", user, pk, query, data, FALSE)

\* Mutant of the PATCH: it is handled as a full update.
RecipePartialUpdate_full(user, pk, query, data) ==
    UpdateModelMixin_update("recipe-partial-update", user, pk, query, data, FALSE)

\* PATCH recipes/{pk}: ModelViewSet.partial_update.
RecipePartialUpdate(user, pk, query, data) ==
    UpdateModelMixin_update("recipe-partial-update", user, pk, query, data, TRUE)

\* DELETE recipes/{pk}: ModelViewSet.destroy.
RecipeDestroy(user, pk, query) ==
    LET found == RecipeViewSet_get_object(user, pk, query)
    IN IF found # HTTP_200_OK
       THEN Refused("recipe-destroy", user, pk, query, NoData, found)
       ELSE /\ recipes' = recipes \ {Row(recipes, pk)}
            /\ creator' = [creator EXCEPT
                             !.recipe = [i \in DOMAIN @ \ {pk} |-> @[i]]]
            /\ last' = Response("recipe-destroy", user, pk, query, NoData,
                                HTTP_204_NO_CONTENT, <<>>, {}, {})
            /\ UNCHANGED <<accounts, tags, ingredients, next_id>>

\* Mutant of upload_image: serializer.save() without is_valid().
upload_image_unvalidated(user, pk, query, data) ==
    LET found == RecipeViewSet_get_object(user, pk, query)
    IN IF found # HTTP_200_OK
       THEN Refused("recipe-upload-image", user, pk, query, data, found)
       ELSE /\ recipes' = (recipes \ {Row(recipes, pk)}) \cup
                     {RecipeImageSerializer_update(Row(recipes, pk), data)}
            /\ last' = Response("recipe-upload-image", user, pk, query, data,
                                HTTP_200_OK, <<pk>>, {}, {})
            /\ UNCHANGED <<accounts, tags, ingredients, next_id, creator>>

\* RecipeViewSet.upload_image
upload_image(user, pk, query, data) ==
    LET found == RecipeViewSet_get_object(user, pk, query)
    IN IF found # HTTP_200_OK
       THEN Refused("recipe-upload-image", user, pk, query, data, found)
       ELSE IF RecipeImageSerializer_is_valid(data)
       THEN /\ recipes' = (recipes \ {Row(recipes, pk)}) \cup
                     {RecipeImageSerializer_update(Row(recipes, pk), data)}
            /\ last' = Response("recipe-upload-image", user, pk, query, data,
                                HTTP_200_OK, <<pk>>, {}, {})
            /\ UNCHANGED <<accounts, tags, ingredients, next_id, creator>>
       ELSE Refused("recipe-upload-image", user, pk, query, data,
                    HTTP_400_BAD_REQUEST)

\* ------------------------------------------------- authentication
\* request.user of a request that no credentials authenticate.
AnonymousUser == 0

\* authentication_classes = (TokenAuthentication,): the user of the stored
\* token that the Authorization header names.  No header, a key of no token
\* and the key of a user who is not active all leave the request without a
\* user (the last two raise AuthenticationFailed, which is answered as a
\* request without credentials is).
TokenAuthentication_authenticate(key) ==
    LET found == {t \in tokens : t.key = key /\ key # ""}
    IN IF found = {} THEN AnonymousUser
       ELSE LET user == (CHOOSE t \in found : TRUE).user
            IN IF \E u \in users : u.id = user /\ u.is_active
               THEN user ELSE AnonymousUser

\* Mutants of the permission_classes: AllowAny.
BaseRecipeAttrViewset_allow_any(user) == TRUE
RecipeViewSet_allow_any(user) == TRUE

\* permission_classes = (IsAuthenticated,) of BaseRecipeAttrViewset.
BaseRecipeAttrViewset_check_permissions(user) == user # AnonymousUser

\* permission_classes = (IsAuthenticated,) of RecipeViewSet.
RecipeViewSet_check_permissions(user) == user # AnonymousUser

\* The permission of the profile endpoint (ManageUserView).
ManageUserView_check_permissions(user) == user # AnonymousUser

\* The answer to a request that the permission refuses: 401, neither rows
\* nor a body, nothing written.
NotAuthenticated(action, pk, query, data, key) ==
    /\ last' = Response(action, AnonymousUser, pk, query, data,
                        HTTP_401_UNAUTHORIZED, <<>>, {}, {})
    /\ authorization' = Credentials(0, key)
    /\ UNCHANGED <<accounts, tags, ingredients, recipes, next_id, creator>>

\* APIView.dispatch of the tag and ingredient viewsets: authentication and
\* the permission check (initial) come before the handler and before any
\* reading of the query string or of the payload.  `handled` is the handler
\* on the request of the authenticated user, request_user(key).
request_user(key) == TokenAuthentication_authenticate(key)

BaseRecipeAttrViewset_dispatch(key, action, query, data, handled) ==
    IF BaseRecipeAttrViewset_check_permissions(request_user(key))
    THEN handled /\ authorization' = Credentials(0, key)
    ELSE NotAuthenticated(action, 0, query, data, key)

\* APIView.dispatch of RecipeViewSet.
RecipeViewSet_dispatch(key, action, pk, query, data, handled) ==
    IF RecipeViewSet_check_permissions(request_user(key))
    THEN handled /\ authorization' = Credentials(0, key)
    ELSE NotAuthenticated(action, pk, query, data, key)

\* ------------------------------------------------- user endpoints
\* The response of a user endpoint: that of Response, with a body.
UserResponse(action, user, data, status, body) ==
    Response(action, user, 0, NoQuery, data, status, <<>>, {}, {})
      @@ [body |-> body]

\* The shortest password the user serializer takes.
MinPasswordLength == 5

\* UserSerializer validation.  email and password are required (of a partial
\* update only when given) and may not be blank, the password has the
\* minimal length, and the email, as the payload gives it, is that of no
\* stored user.
UserSerializer_is_valid(data, partial) ==
    /\ IF "email" \in DOMAIN data
       THEN data.email # NoEmail /\ \A u \in users : u.email # data.email
       ELSE partial
    /\ IF "password" \in DOMAIN data
       THEN Len(data.password) >= MinPasswordLength
       ELSE partial

\* What the user serializer shows of a user: the password is write-only.
UserSerializer_data(user) == [email |-> user.email, name |-> user.name]

\* POST user/create (CreateUserView): validation, then create_user with the
\* validated fields.  An exception of create_user or of its save() is caught
\* by nothing.
CreateUserView_post(data) ==
    /\ authorization' = Credentials(0, "")
    /\ UNCHANGED <<tags, ingredients, recipes, creator, tokens>>
    /\ IF ~UserSerializer_is_valid(data, FALSE)
       THEN /\ last' = UserResponse("user-create", AnonymousUser, data,
                                    HTTP_400_BAD_REQUEST, NoData)
            /\ UNCHANGED <<users, raw_password, next_id>>
       ELSE IF \/ create_user_raises(data.email)
               \/ MyUser_email_unique_violated(users, normalize_email(data.email))
       THEN /\ last' = UserResponse("user-create", AnonymousUser, data,
                                    UNHANDLED_EXCEPTION, NoData)
            /\ UNCHANGED <<users, raw_password, next_id>>
       ELSE LET user == create_user(next_id.user, data.email, data.password,
                                    [f \in DOMAIN data \ {"email", "password"}
                                       |-> data[f]])
            IN /\ users' = users \cup {user}
               /\ raw_password' = (user.id :> data.password) @@ raw_password
               /\ next_id' = [next_id EXCEPT !.user = @ + 1]
               /\ last' = UserResponse("user-create", AnonymousUser, data,
                                       HTTP_201_CREATED, UserSerializer_data(user))

\* django.contrib.auth.authenticate(username=email, password=password): the
\* active user of this email whose password this is, or none.  An email of
\* no user and a password that does not match end the same way.
authenticate(email, password) ==
    LET found == {u \in users : /\ u.email = email
                                /\ check_password(password, u.password)
                                /\ u.is_active}
    IN IF found = {} THEN AnonymousUser ELSE (CHOOSE u \in found : TRUE).id

\* The keys of the tokens, in the order in which they are generated.
Keys == <<"key1", "key2", "key3">>

\* The body of the 400 of the token endpoint: the fields that are missing
\* or blank, or else the one message of a failed authentication.
AuthTokenSerializer_errors(data) ==
    LET required == {f \in {"email", "password"} :
                        f \notin DOMAIN data
                          \/ data[f] = (IF f = "email" THEN NoEmail ELSE "")}
    IN IF required # {} THEN [required |-> required]
       ELSE [non_field_errors |-> "Unable to authenticate with provided credentials"]

\* POST user/token (CreateTokenView): the token of the authenticated user,
\* made when the user has none (Token.objects.get_or_create).
CreateTokenView_post(data) ==
    LET complete == /\ {"email", "password"} \subseteq DOMAIN data
                    /\ data.email # NoEmail /\ data.password # ""
        user == IF complete THEN authenticate(data.email, data.password)
                ELSE AnonymousUser
        key == IF \E t \in tokens : t.user = user
               THEN (CHOOSE t \in tokens : t.user = user).key
               ELSE Keys[Cardinality(tokens) + 1]
    IN /\ authorization' = Credentials(0, "")
       /\ UNCHANGED <<tags, ingredients, recipes, next_id, creator,
                      users, raw_password>>
       /\ IF user = AnonymousUser
          THEN /\ last' = UserResponse("user-token", AnonymousUser, data,
                                       HTTP_400_BAD_REQUEST,
                                       AuthTokenSerializer_errors(data))
               /\ UNCHANGED tokens
          ELSE /\ tokens' = tokens \cup {[key |-> key, user |-> user]}
               /\ last' = UserResponse("user-token", user, data, HTTP_200_OK,
                                       [token |-> key])

\* GET user/me (ManageUserView.retrieve): the caller's own row.
ManageUserView_get(key) ==
    LET user == TokenAuthentication_authenticate(key)
    IN IF ~ManageUserView_check_permissions(user)
       THEN NotAuthenticated("user-me-retrieve", 0, NoQuery, NoData, key)
       ELSE /\ last' = UserResponse("user-me-retrieve", user, NoData, HTTP_200_OK,
                          UserSerializer_data(CHOOSE u \in users : u.id = user))
            /\ authorization' = Credentials(0, key)
            /\ UNCHANGED <<accounts, tags, ingredients, recipes, next_id, creator>>

\* PATCH user/me (ManageUserView.partial_update): the name is written as
\* given and the password through set_password.
ManageUserView_patch(key, data) ==
    LET user == TokenAuthentication_authenticate(key)
        instance == CHOOSE u \in users : u.id = user
        updated == [instance EXCEPT
                      !.name = IF "name" \in DOMAIN data THEN data.name ELSE @,
                      !.password = IF "password" \in DOMAIN data
                                   THEN make_password(data.password) ELSE @]
    IN IF ~ManageUserView_check_permissions(user)
       THEN NotAuthenticated("user-me-partial-update", 0, NoQuery, data, key)
       ELSE /\ authorization' = Credentials(0, key)
            /\ UNCHANGED <<tags, ingredients, recipes, next_id, creator, tokens>>
            /\ IF ~UserSerializer_is_valid(data, TRUE)
               THEN /\ last' = UserResponse("user-me-partial-update", user, data,
                                            HTTP_400_BAD_REQUEST, NoData)
                    /\ UNCHANGED <<users, raw_password>>
               ELSE /\ users' = (users \ {instance}) \cup {updated}
                    /\ raw_password' =
                          IF "password" \in DOMAIN data
                          THEN [raw_password EXCEPT ![user] = data.password]
                          ELSE raw_password
                    /\ last' = UserResponse("user-me-partial-update", user, data,
                                            HTTP_200_OK, UserSerializer_data(updated))

\* POST user/me: the view has no handler for it; the permission is checked
\* before the method is.
ManageUserView_post(key, data) ==
    LET user == TokenAuthentication_authenticate(key)
    IN IF ~ManageUserView_check_permissions(user)
       THEN NotAuthenticated("user-me-post", 0, NoQuery, data, key)
       ELSE /\ last' = UserResponse("user-me-post", user, data,
                                    HTTP_405_METHOD_NOT_ALLOWED, NoData)
            /\ authorization' = Credentials(0, key)
            /\ UNCHANGED <<accounts, tags, ingredients, recipes, next_id, creator>>

\* ------------------------------------------------- request inputs
\* Ids a payload or a path may name: those the tables can hold.
TagIds == 1..MaxTags
IngredientIds == 1..MaxIngredients

\* Payloads of a tag or ingredient create: a name, and possibly an owner.
AttrPayloads == {[name |-> ""], [name |-> "Vegan"], [name |-> "Vegan", user |-> 1]}

\* Payloads of a recipe create.
SampleRecipe == [title |-> "Sample recipe", time_minutes |-> 10, price |-> 5]

RecipeCreatePayloads ==
    {SampleRecipe, [SampleRecipe EXCEPT !.title = ""], SampleRecipe @@ [user |-> 1]}
      \cup {SampleRecipe @@ [tags |-> T] : T \in SUBSET TagIds \ {{}}}
      \cup {SampleRecipe @@ [ingredients |-> I] : I \in SUBSET IngredientIds \ {{}}}

\* Payloads of a full update.
FullRecipe == [title |-> "Chicken", time_minutes |-> 25, price |-> 14]

RecipeUpdatePayloads ==
    {FullRecipe, [FullRecipe EXCEPT !.title = ""],
     [title |-> "Chicken", time_minutes |-> 25], FullRecipe @@ [user |-> 1]}
      \cup {FullRecipe @@ [tags |-> T] : T \in SUBSET TagIds}
      \cup {FullRecipe @@ [ingredients |-> I] : I \in SUBSET IngredientIds \ {{}}}

\* Payloads of a partial update.
RecipePatchPayloads ==
    {NoData, [title |-> ""], [tags |-> {1}, user |-> 1]}
      \cup {[tags |-> T] : T \in SUBSET TagIds}
      \cup {[ingredients |-> I] : I \in SUBSET IngredientIds}

\* Payloads of an image upload.
ImagePayloads == {[image |-> i] : i \in Uploads}

\* Query strings on the path of one recipe: get_object goes through
\* get_queryset, which reads them there as it does on the list.
DetailQueries == {[tags |-> <<"2">>], [tags |-> <<"a">>]}

\* Payloads and query strings of ListSpec.
ListAttrPayloads == {[name |-> ""], [name |-> "Vegan"]}

ListRecipePayloads ==
    {[SampleRecipe EXCEPT !.title = ""]}
      \cup {SampleRecipe @@ [tags |-> T, ingredients |-> I] :
              T \in SUBSET TagIds, I \in SUBSET IngredientIds}

AttrQueries == {NoQuery} \cup {[assigned_only |-> s] : s \in {<<"1">>, <<"0">>, <<"a">>}}

RecipeQueries ==
    {NoQuery, [ingredients |-> <<"1">>], [ingredients |-> <<"1", ",">>]}
      \cup {[tags |-> t] : t \in {<<"1">>, <<"1", ",", "2">>, <<"a">>,
                                  <<"1", ",", ",", "2">>}}
      \cup {[tags |-> t, ingredients |-> <<"1">>] :
              t \in {<<"1">>, <<"1", ",", "2">>}}

\* ------------------------------------------------- specifications
\* APIClient.force_authenticate(user): the request is handled as the user's.
force_authenticate(user) == authorization' = Credentials(user, "")

\* The requests for one recipe, each from either user for each id the
\* sequence can give (the id is of no row before the create and after the
\* delete).
DetailRequests ==
    \E user \in Users, pk \in 1..MaxRecipes :
       \/ RecipeRetrieve(user, pk, NoQuery) /\ force_authenticate(user)
       \/ RecipeDestroy(user, pk, NoQuery) /\ force_authenticate(user)
       \/ \E data \in RecipeUpdatePayloads :
             RecipeUpdate(user, pk, NoQuery, data) /\ force_authenticate(user)
       \/ \E data \in RecipePatchPayloads :
             RecipePartialUpdate(user, pk, NoQuery, data) /\ force_authenticate(user)
       \/ \E data \in ImagePayloads :
             upload_image(user, pk, NoQuery, data) /\ force_authenticate(user)
       \/ \E query \in DetailQueries :
             \/ RecipeRetrieve(user, pk, query) /\ force_authenticate(user)
             \/ RecipeDestroy(user, pk, query) /\ force_authenticate(user)
             \/ RecipeUpdate(user, pk, query, FullRecipe) /\ force_authenticate(user)
             \/ RecipePartialUpdate(user, pk, query, [tags |-> {1}])
                  /\ force_authenticate(user)
             \/ upload_image(user, pk, query, [image |-> "a.jpg"])
                  /\ force_authenticate(user)

\* Spec: the requests that write, and the retrieve of one recipe.
Next ==
    \/ /\ next_id.tag <= MaxTags
       /\ \E user \in Users, data \in AttrPayloads :
             TagCreate(user, data) /\ force_authenticate(user)
    \/ /\ next_id.ingredient <= MaxIngredients
       /\ \E user \in Users, data \in AttrPayloads :
             IngredientCreate(user, data) /\ force_authenticate(user)
    \/ /\ next_id.recipe <= MaxRecipes
       /\ \E user \in Users, data \in RecipeCreatePayloads :
             RecipeCreate(user, data) /\ force_authenticate(user)
    \/ DetailRequests

Spec == Init /\ [][Next]_vars

\* ListSpec: the creates, and the three lists with their query strings.
ListNext ==
    \/ /\ next_id.tag <= MaxTags
       /\ \E user \in Users, data \in ListAttrPayloads :
             TagCreate(user, data) /\ force_authenticate(user)
    \/ /\ next_id.ingredient <= MaxIngredients
       /\ \E user \in Users, data \in ListAttrPayloads :
             IngredientCreate(user, data) /\ force_authenticate(user)
    \/ /\ next_id.recipe <= MaxListRecipes
       /\ \E user \in Users, data \in ListRecipePayloads :
             RecipeCreate(user, data) /\ force_authenticate(user)
    \/ \E user \in Users, query \in AttrQueries :
          TagList(user, query) /\ force_authenticate(user)
    \/ \E user \in Users, query \in AttrQueries :
          IngredientList(user, query) /\ force_authenticate(user)
    \/ \E user \in Users, query \in RecipeQueries :
          RecipeList(user, query) /\ force_authenticate(user)

ListSpec == Init /\ [][ListNext]_vars

\* UserSpec: the requests of app/user.
\* Emails of the payloads: that of a stored user, one of no user, and both
\* with the domain in capitals.
NewUser == <<"new", "test.com">>
UserEmails == {TestUser, <<"test", "TEST.com">>, NewUser, <<"new", "TEST.com">>}

ShortPassword == "1234"
NewPassword == "testpass4567"

UserCreatePayloads ==
    {[email |-> e, password |-> p] :
        e \in UserEmails \cup {NoEmail}, p \in {ShortPassword, TestPassword}}
      \cup {[email |-> NewUser, password |-> TestPassword, name |-> "Test User"],
            [email |-> NewUser], [password |-> TestPassword]}

TokenPayloads ==
    {[email |-> e, password |-> p] :
        e \in UserEmails, p \in {TestPassword, "wrong", NewPassword}}
      \cup {[email |-> TestUser], [password |-> TestPassword],
            [email |-> TestUser, password |-> ""]}

ProfilePayloads ==
    {[name |-> "New User", password |-> NewPassword], [name |-> "New User"],
     [password |-> ShortPassword]}

\* Keys of an Authorization header: none, one of no token, and those that
\* tokens are given.
HeaderKeys == {"", "invalid"} \cup {Keys[k] : k \in 1..Len(Keys)}

\* The create stores a user (the only request that makes the table grow).
StoresUser(data) ==
    /\ UserSerializer_is_valid(data, FALSE)
    /\ ~create_user_raises(data.email)
    /\ ~MyUser_email_unique_violated(users, normalize_email(data.email))

UserNext ==
    \/ \E data \in UserCreatePayloads :
          /\ StoresUser(data) => next_id.user <= MaxUsers
          /\ CreateUserView_post(data)
    \/ \E data \in TokenPayloads : CreateTokenView_post(data)
    \/ \E key \in HeaderKeys : ManageUserView_get(key)
    \/ \E key \in HeaderKeys, data \in ProfilePayloads : ManageUserView_patch(key, data)
    \/ \E key \in HeaderKeys : ManageUserView_post(key, NoData)

UserSpec == Init /\ [][UserNext]_vars

\* AuthSpec: the requests of app/recipe and of the profile as the clients
\* send them, with or without the key of a token in the Authorization
\* header, and the token endpoint that gives the keys.
AuthKeys == {"", "invalid", Keys[1]}

AuthTokenPayloads ==
    {[email |-> TestUser, password |-> TestPassword],
     [email |-> TestUser, password |-> "wrong"]}

AuthRecipePayloads ==
    {SampleRecipe, SampleRecipe @@ [tags |-> {1}], [SampleRecipe EXCEPT !.title = ""]}

AuthAttrQueries == {NoQuery, [assigned_only |-> <<"1">>], [assigned_only |-> <<"a">>]}

AuthRecipeQueries == {NoQuery, [tags |-> <<"1">>], [tags |-> <<"a">>]}

\* The key is of a token: the request reaches its handler.
Authenticates(key) == TokenAuthentication_authenticate(key) # AnonymousUser

AuthDetailRequests ==
    \E key \in AuthKeys, pk \in 1..MaxRecipes :
       \/ \E query \in AuthRecipeQueries :
             RecipeViewSet_dispatch(key, "recipe-retrieve", pk, query, NoData,
                 RecipeRetrieve(request_user(key), pk, query))
       \/ RecipeViewSet_dispatch(key, "recipe-destroy", pk, NoQuery, NoData,
              RecipeDestroy(request_user(key), pk, NoQuery))
       \/ RecipeViewSet_dispatch(key, "recipe-update", pk, NoQuery, FullRecipe,
              RecipeUpdate(request_user(key), pk, NoQuery, FullRecipe))
       \/ \E data \in {[tags |-> {}], [tags |-> {1}]} :
             RecipeViewSet_dispatch(key, "recipe-partial-update", pk, NoQuery, data,
                 RecipePartialUpdate(request_user(key), pk, NoQuery, data))
       \/ \E data \in {[image |-> "a.jpg"], [image |-> "no_image"]} :
             RecipeViewSet_dispatch(key, "recipe-upload-image", pk, NoQuery, data,
                 upload_image(request_user(key), pk, NoQuery, data))

AuthNext ==
    \/ \E data \in AuthTokenPayloads : CreateTokenView_post(data)
    \/ \E key \in AuthKeys, query \in AuthAttrQueries :
          BaseRecipeAttrViewset_dispatch(key, "tag-list", query, NoData,
              TagList(request_user(key), query))
    \/ \E key \in AuthKeys, query \in AuthAttrQueries :
          BaseRecipeAttrViewset_dispatch(key, "ingredient-list", query, NoData,
              IngredientList(request_user(key), query))
    \/ \E key \in AuthKeys, data \in ListAttrPayloads :
          /\ Authenticates(key) => next_id.tag <= MaxAuthTags
          /\ BaseRecipeAttrViewset_dispatch(key, "tag-create", NoQuery, data,
                 TagCreate(request_user(key), data))
    \/ \E key \in AuthKeys, data \in ListAttrPayloads :
          /\ Authenticates(key) => next_id.ingredient <= MaxIngredients
          /\ BaseRecipeAttrViewset_dispatch(key, "ingredient-create", NoQuery, data,
                 IngredientCreate(request_user(key), data))
    \/ \E key \in AuthKeys, query \in AuthRecipeQueries :
          RecipeViewSet_dispatch(key, "recipe-list", 0, query, NoData,
              RecipeList(request_user(key), query))
    \/ \E key \in AuthKeys, data \in AuthRecipePayloads :
          /\ Authenticates(key) => next_id.recipe <= MaxRecipes
          /\ RecipeViewSet_dispatch(key, "recipe-create", 0, NoQuery, data,
                 RecipeCreate(request_user(key), data))
    \/ AuthDetailRequests
    \/ \E key \in AuthKeys : ManageUserView_get(key)
    \/ \E key \in AuthKeys : ManageUserView_patch(key, [name |-> "New User"])
    \/ \E key \in AuthKeys : ManageUserView_post(key, NoData)

AuthSpec == Init /\ [][AuthNext]_vars

\* ------------------------------------------------- properties
Succeeded == {HTTP_200_OK, HTTP_201_CREATED, HTTP_204_NO_CONTENT}

DetailActions ==
    {"recipe-retrieve", "recipe-update", "recipe-partial-update",
     "recipe-destroy", "recipe-upload-image"}

ListActions == {"tag-list", "ingredient-list", "recipe-list"}

\* The ids a response lists.
Returned == {last.rows[k] : k \in 1..Len(last.rows)}

\* A tags or ingredients value that is a comma-separated list of integers,
\* and an assigned_only value that is an integer.
WellFormed(query) ==
    \A p \in DOMAIN query :
       IF p = "assigned_only" THEN int_ok(query[p])
       ELSE \A k \in 1..Len(split(query[p])) : int_ok(split(query[p])[k])

\* The ids a well-formed tags or ingredients value names.
Wanted(query, p) == {int(split(query[p])[k]) : k \in 1..Len(split(query[p]))}

\* C1: a list or a retrieve answered to a user returns no tag, ingredient or
\* recipe that another user owns, the tags and ingredients nested in the
\* details of a retrieved recipe included.
C1_ReturnsOnlyOwnEntities ==
    /\ last.action = "tag-list" =>
          \A i \in Returned : Row(tags, i).user = last.user
    /\ last.action = "ingredient-list" =>
          \A i \in Returned : Row(ingredients, i).user = last.user
    /\ last.action \in {"recipe-list", "recipe-retrieve"} =>
          \A i \in Returned : Row(recipes, i).user = last.user
    /\ last.action = "recipe-retrieve" =>
          /\ \A i \in last.nested_tags : Row(tags, i).user = last.user
          /\ \A i \in last.nested_ingredients : Row(ingredients, i).user = last.user

\* C2: a retrieve, PUT, PATCH, delete or upload_image by a user other than the
\* owner of the recipe it names never succeeds and leaves every recipe as it
\* was; its outcome is not-found whenever its path carries no malformed
\* filter (no query string at all in particular).
C2_OtherUsersRecipeNotFound ==
    [][\A r \in recipes :
          (last'.action \in DetailActions /\ last'.pk = r.id /\ last'.user # r.user)
            => /\ last'.status \notin Succeeded
               /\ recipes' = recipes
               /\ WellFormed(last'.query) => last'.status = HTTP_404_NOT_FOUND]_vars

\* C2 witness: a PATCH of tags by the other user was answered not-found while
\* the recipe, with tags of its own, is there.
C2_Witness ==
    /\ last.action = "recipe-partial-update"
    /\ last.status = HTTP_404_NOT_FOUND
    /\ last.query = NoQuery
    /\ \E r \in recipes : r.id = last.pk /\ r.user # last.user /\ r.tags # {}

\* C3: the owner of every tag, ingredient and recipe is the caller of the
\* create request that made it, whatever owner a payload supplied then or in
\* an update since.
C3_OwnerIsCreator ==
    /\ \A t \in tags : t.user = creator.tag[t.id]
    /\ \A i \in ingredients : i.user = creator.ingredient[i.id]
    /\ \A r \in recipes : r.user = creator.recipe[r.id]

\* C3 witness: a PATCH whose payload names another user as the owner has
\* succeeded on a recipe, and a tag of another owner exists.
C3_Witness ==
    /\ last.action = "recipe-partial-update"
    /\ last.status = HTTP_200_OK
    /\ "user" \in DOMAIN last.data
    /\ last.data.user # last.user
    /\ \E t \in tags : t.user # last.user

\* C4: the tag (ingredient) list with assigned_only=1 is exactly the caller's
\* tags (ingredients) that some recipe of the caller references, each once.
C4_AssignedOnlyOfCallersRecipes ==
    \A kind \in {"tag", "ingredient"} :
       LET table == IF kind = "tag" THEN tags ELSE ingredients
           field == IF kind = "tag" THEN "tags" ELSE "ingredients"
       IN (/\ last.action = IF kind = "tag" THEN "tag-list" ELSE "ingredient-list"
           /\ last.query = [assigned_only |-> <<"1">>])
            => /\ last.status = HTTP_200_OK
               /\ Returned = {t.id : t \in {x \in table :
                                 /\ x.user = last.user
                                 /\ \E r \in recipes :
                                       r.user = last.user /\ x.id \in r[field]}}
               /\ \A j, k \in 1..Len(last.rows) :
                     last.rows[j] = last.rows[k] => j = k

\* C5: the recipe list answers a well-formed query with exactly the caller's
\* recipes that have a tag among the ids of ?tags (if given) and an
\* ingredient among the ids of ?ingredients (if given).
C5_RecipeListFilters ==
    (last.action = "recipe-list" /\ WellFormed(last.query))
      => /\ last.status = HTTP_200_OK
         /\ Returned =
              {r.id : r \in {x \in recipes :
                 /\ x.user = last.user
                 /\ "tags" \in DOMAIN last.query
                      => x.tags \cap Wanted(last.query, "tags") # {}
                 /\ "ingredients" \in DOMAIN last.query
                      => x.ingredients \cap Wanted(last.query, "ingredients") # {}}}

\* C5 witness: a list with both filters returned one recipe of a caller who
\* has another.
C5_Witness ==
    /\ last.action = "recipe-list"
    /\ DOMAIN last.query = {"tags", "ingredients"}
    /\ Cardinality(Returned) = 1
    /\ \E r \in recipes : r.user = last.user /\ r.id \notin Returned

\* C6: a PUT by the owner of a recipe, without query string, whose payload
\* gives a title that is not blank, time_minutes and price, omits tags and is
\* valid in what else it gives, succeeds and leaves the recipe without tags.
C6_PutWithoutTagsClearsTags ==
    [][\A r \in recipes :
          (/\ last'.action = "recipe-update"
           /\ last'.pk = r.id /\ last'.user = r.user /\ last'.query = NoQuery
           /\ {"title", "time_minutes", "price"} \subseteq DOMAIN last'.data
           /\ last'.data.title # ""
           /\ "tags" \notin DOMAIN last'.data
           /\ "ingredients" \in DOMAIN last'.data
                => last'.data.ingredients \subseteq Ids(ingredients))
            => /\ last'.status = HTTP_200_OK
               /\ \E n \in recipes' : n.id = r.id /\ n.tags = {}]_vars

\* C6 witness: such a PUT has succeeded and the recipe has no tag.
C6_Witness ==
    /\ last.action = "recipe-update"
    /\ last.status = HTTP_200_OK
    /\ last.query = NoQuery
    /\ "tags" \notin DOMAIN last.data
    /\ \E r \in recipes : r.id = last.pk /\ r.tags = {} /\ r.ingredients # {}

\* The fields of a recipe that a payload can write.
Writable == {"title", "time_minutes", "price", "tags", "ingredients"}

\* C7: a PATCH by the owner that succeeds writes the payload's fields and
\* leaves every other field of the recipe, and every other recipe, as it was;
\* a PATCH without query string that gives only tags, all of them ids of
\* tags, succeeds, and the recipe is then the old one with those tags.
C7_PatchWritesOnlyGivenFields ==
    [][\A r \in recipes :
          (/\ last'.action = "recipe-partial-update"
           /\ last'.pk = r.id /\ last'.user = r.user)
            => /\ last'.status = HTTP_200_OK =>
                    \E n \in recipes' :
                       /\ recipes' = (recipes \ {r}) \cup {n}
                       /\ \A f \in DOMAIN r :
                             n[f] = IF f \in Writable \cap DOMAIN last'.data
                                    THEN last'.data[f] ELSE r[f]
               /\ last'.status # HTTP_200_OK => recipes' = recipes
               /\ (/\ DOMAIN last'.data = {"tags"}
                   /\ last'.data.tags \subseteq Ids(tags)
                   /\ last'.query = NoQuery)
                    => /\ last'.status = HTTP_200_OK
                       /\ recipes' = (recipes \ {r})
                                        \cup {[r EXCEPT !.tags = last'.data.tags]}]_vars

\* C7 witness: a PATCH of tags alone has succeeded on a recipe that has an
\* ingredient, an image and the fields of an earlier PUT.
C7_Witness ==
    /\ last.action = "recipe-partial-update"
    /\ last.status = HTTP_200_OK
    /\ DOMAIN last.data = {"tags"}
    /\ \E r \in recipes :
          /\ r.id = last.pk /\ r.tags = last.data.tags /\ r.tags = {2}
          /\ r.ingredients # {} /\ r.image # NoImage /\ r.title = "Chicken"

\* C8: a create of a tag or ingredient with an empty name, or of a recipe
\* with an empty title, is answered 400 and leaves the three tables as
\* they were.
C8_BlankCreateRejected ==
    [][(\/ /\ last'.action \in {"tag-create", "ingredient-create"}
           /\ last'.data.name = ""
        \/ /\ last'.action = "recipe-create"
           /\ last'.data.title = "")
         => /\ last'.status = HTTP_400_BAD_REQUEST
            /\ UNCHANGED <<tags, ingredients, recipes>>]_vars

\* C8 witness: a recipe create with an empty title was refused while rows
\* are stored.
C8_Witness ==
    /\ last.action = "recipe-create"
    /\ last.data.title = ""
    /\ last.status = HTTP_400_BAD_REQUEST
    /\ tags # {} /\ ingredients # {}

\* C9: upload_image by the owner of a recipe, without query string, is
\* answered 200 with the upload stored as the recipe's image when the upload
\* is an image, and 400 with the recipe as it was when it is not.
C9_UploadImage ==
    [][\A r \in recipes :
          (/\ last'.action = "recipe-upload-image"
           /\ last'.pk = r.id /\ last'.user = r.user /\ last'.query = NoQuery)
            => IF last'.data.image \in ValidImages
               THEN /\ last'.status = HTTP_200_OK
                    /\ recipes' = (recipes \ {r})
                                     \cup {[r EXCEPT !.image = last'.data.image]}
               ELSE /\ last'.status = HTTP_400_BAD_REQUEST
                    /\ recipes' = recipes]_vars

\* C9 witness: an upload that is no image was refused on a recipe that holds
\* the image of an earlier upload.
C9_Witness ==
    /\ last.action = "recipe-upload-image"
    /\ last.status = HTTP_400_BAD_REQUEST
    /\ last.query = NoQuery
    /\ last.data.image \notin ValidImages
    /\ \E r \in recipes : r.id = last.pk /\ r.user = last.user /\ r.image = "b.jpg"

\* C10: a list request with a malformed tags, ingredients or assigned_only
\* value is answered 400.
C10_MalformedQueryIs400 ==
    (last.action \in ListActions /\ ~WellFormed(last.query))
      => last.status = HTTP_400_BAD_REQUEST

\* C14: a recipe create whose payload is valid (a title that is not blank,
\* time_minutes, price) and lists ids of existing tags is answered 201 and
\* stores a recipe of the caller with exactly the listed tags, whoever owns
\* them: a tag of another user in the list is neither refused nor dropped.
C14_CreateTakesTagsOfAnyOwner ==
    [][(/\ last'.action = "recipe-create"
        /\ {"title", "time_minutes", "price", "tags"} \subseteq DOMAIN last'.data
        /\ last'.data.title # ""
        /\ last'.data.tags \subseteq Ids(tags)
        /\ "ingredients" \in DOMAIN last'.data
             => last'.data.ingredients \subseteq Ids(ingredients))
         => /\ last'.status = HTTP_201_CREATED
            /\ \E n \in recipes' \ recipes :
                  /\ recipes' = recipes \cup {n}
                  /\ n.id = last'.pk
                  /\ n.user = last'.user
                  /\ n.tags = last'.data.tags]_vars

\* C14 witness: a recipe was created with two tags, one of the caller and
\* one of another user, and holds both.
C14_Witness ==
    /\ last.action = "recipe-create"
    /\ last.status = HTTP_201_CREATED
    /\ "tags" \in DOMAIN last.data
    /\ \E r \in recipes :
          /\ r.id = last.pk /\ r.tags = last.data.tags
          /\ \E t \in r.tags : Row(tags, t).user = r.user
          /\ \E t \in r.tags : Row(tags, t).user # r.user

\* C15: the recipe list answers every well-formed query with each recipe at
\* most once and in descending order of id.
C15_RecipeListOnceDescending ==
    (last.action = "recipe-list" /\ WellFormed(last.query))
      => /\ last.status = HTTP_200_OK
         /\ \A j, k \in 1..Len(last.rows) :
               j < k => last.rows[j] > last.rows[k]

\* C12: the token endpoint answers 200 exactly when the payload gives the
\* email of a stored user and the password last set for that user; the body
\* is then a token stored for that user.  Every other request is answered 400
\* without a token, and when both fields are given the 400 is one and the
\* same whether the email is of no user or the password is wrong.
C12_TokenIffCredentials ==
    last.action = "user-token" =>
       LET given == {"email", "password"} \subseteq DOMAIN last.data
           owners == IF given
                     THEN {u \in users : /\ u.email = last.data.email
                                         /\ raw_password[u.id] = last.data.password}
                     ELSE {}
       IN /\ last.status = HTTP_200_OK <=> owners # {}
          /\ last.status = HTTP_200_OK =>
                /\ DOMAIN last.body = {"token"}
                /\ \E u \in owners : [key |-> last.body.token, user |-> u.id] \in tokens
          /\ last.status # HTTP_200_OK =>
                /\ last.status = HTTP_400_BAD_REQUEST
                /\ "token" \notin DOMAIN last.body
          /\ (given /\ owners = {} /\ last.data.email # NoEmail /\ last.data.password # "")
                => last.body = [non_field_errors |->
                                  "Unable to authenticate with provided credentials"]

\* C12 witness: a token was issued for the password that a profile update
\* set, to a user who was created through the endpoint.
C12_Witness ==
    /\ last.action = "user-token"
    /\ last.status = HTTP_200_OK
    /\ last.data.password = NewPassword
    /\ last.data.email = NewUser

\* C13: no two stored users share an email.  A user create whose payload
\* gives the email of a stored user, or a password of fewer than 5
\* characters, is answered 400 and leaves the users as they were; a create
\* that is answered 201 stores one user more and its body is the email and
\* the name of that user, without the password.
C13_UserCreate ==
    [][/\ \A u, v \in users' : u.email = v.email => u = v
       /\ last'.action = "user-create" =>
             /\ (\/ /\ "email" \in DOMAIN last'.data
                    /\ \E u \in users : u.email = last'.data.email
                 \/ /\ "password" \in DOMAIN last'.data
                    /\ Len(last'.data.password) < 5)
                  => /\ last'.status = HTTP_400_BAD_REQUEST
                     /\ users' = users
             /\ last'.status = HTTP_201_CREATED =>
                   /\ "password" \notin DOMAIN last'.body
                   /\ \E n \in users' \ users :
                         /\ users' = users \cup {n}
                         /\ last'.body = [email |-> n.email, name |-> n.name]
             /\ last'.status # HTTP_201_CREATED => users' = users]_vars

\* C13 witness: a create with the email of a user whom an earlier create
\* stored was answered 400.
C13_Witness ==
    /\ last.action = "user-create"
    /\ last.status = HTTP_400_BAD_REQUEST
    /\ "email" \in DOMAIN last.data
    /\ "password" \in DOMAIN last.data
    /\ Len(last.data.password) >= 5
    /\ \E u \in users : u.email = last.data.email /\ u.id > 2

\* The requests of the endpoints that ask for a token.
ProtectedActions ==
    {"tag-list", "tag-create", "ingredient-list", "ingredient-create",
     "recipe-list", "recipe-create"} \cup DetailActions
       \cup {"user-me-retrieve", "user-me-partial-update", "user-me-post"}

\* C11: a request to a tag, ingredient, recipe or profile endpoint whose
\* Authorization header is missing or names the key of no stored token is
\* answered 401 without rows, nested details or body, and leaves every table
\* as it was.
C11_NoTokenIs401 ==
    [][(/\ last'.action \in ProtectedActions
        /\ authorization'.force = 0
        /\ \A t \in tokens : t.key # authorization'.key)
         => /\ last'.status = HTTP_401_UNAUTHORIZED
            /\ last'.rows = <<>>
            /\ last'.nested_tags = {} /\ last'.nested_ingredients = {}
            /\ "body" \notin DOMAIN last'
            /\ UNCHANGED <<tags, ingredients, recipes, users, tokens, next_id>>]_vars

\* C11 witness: a delete with the key of no token was answered 401 while the
\* recipe it names is stored with a tag and its owner holds a token.
C11_Witness ==
    /\ last.action = "recipe-destroy"
    /\ last.status = HTTP_401_UNAUTHORIZED
    /\ authorization.key = "invalid"
    /\ tokens # {}
    /\ \E r \in recipes : r.id = last.pk /\ r.tags # {}

====
